---- MODULE Spec2Model ----
(***************************************************************************)
(* Background-model engine of video_tools (src/video_tools/background.py): *)
(* the BoundedQueue ring buffer, the background-subtractor variants and    *)
(* the offloaded streaming engine DynamicBackgroundMP with its worker.     *)
(*                                                                         *)
(* A frame is the flattened height x width array: a sequence of NPix       *)
(* pixels.  Pixel values are integers counted in units of 1/MaxPix of full *)
(* scale, so the single-precision value v/MaxPix is the integer v.         *)
(***************************************************************************)
EXTENDS Integers, Sequences, FiniteSets, TLC

\* ------------------------------------------------------------------ bounds
NPix == 2          \* pixels per frame (height * width)
MaxPix == 1        \* largest pixel value
MaxLen == 3        \* largest ring-buffer capacity (BoundedQueue.maxlen)
MaxAppends == 5    \* appends made to a BoundedQueue in the queue specification
MaxFrames == 4     \* largest number of frames of the video source
MaxSamples == 3    \* largest num_sample_frames
MaxChunks == 2     \* largest num_chunks
MaxEvery == 2      \* largest sample_every_n_frames
MaxCalls == 5      \* subtract_background calls counted by a frame counter
MaxImages == 2     \* largest num_images of the offloaded engine
MaxMPCalls == 2    \* subtract_background calls made on the offloaded engine
MaxStarts == 2     \* processes an offloaded engine launches
MaxStack == 2      \* frames of a sample stack given to an aggregation algorithm
MaxProcs == 3      \* largest num_processes of mode_multiprocessed
MaxProducerCalls == 4  \* subtract_background calls of the producer specification

VARIABLES
    queue,      \* a BoundedQueue: [maxlen, numel, insert_ind, data]
    appended,   \* ghost: the frames appended to queue so far, oldest first
    self,       \* the BackgroundSubtractor object: its class and attributes
    video,      \* the VideoSource behind self.video_reader
    ret,        \* outcome of the last call made on self
    shared,     \* DynamicBackgroundMP: stop_flag, background, image_store
    workers,    \* DynamicBackgroundMP: the processes start() has launched
    prod,       \* DynamicBackgroundMP: the caller's place inside its call
    ghost,      \* history of the offloaded engine, read by the properties only
    agg         \* a call of an aggregation algorithm: its arguments and outcome

queueVars == <<queue, appended>>
modelVars == <<self, video, ret>>
mpVars == <<shared, workers, prod, ghost>>
vars == <<queue, appended, self, video, ret, shared, workers, prod, ghost, agg>>

\* ------------------------------------------------------------------ frames
Pixels == 1..NPix
PixVals == 0..MaxPix
Frames == [Pixels -> PixVals]

\* np.zeros / a fresh RawArray: every element 0
ZeroFrame == [p \in Pixels |-> 0]

\* a[lo:hi] of numpy on the first axis (0-based, hi exclusive, clamped to the length)
Slice(s, lo, hi) ==
    LET h == IF hi > Len(s) THEN Len(s) ELSE hi
    IN  IF lo >= h THEN << >> ELSE SubSeq(s, lo + 1, h)

Min(a, b) == IF a <= b THEN a ELSE b

\* the sequences whose i-th element is drawn from sets[i]
RECURSIVE Product(_)
Product(sets) ==
    IF sets = << >> THEN {<< >>}
    ELSE {<<x>> \o rest : x \in sets[1], rest \in Product(Tail(sets))}

\* ------------------------------------------------------------ BoundedQueue
\* BoundedQueue.__init__: numel = 0, insert_ind = 0, data = maxlen zeroed frames
BoundedQueue(maxlen) ==
    [maxlen |-> maxlen, numel |-> 0, insert_ind |-> 0,
     data |-> [s \in 1..maxlen |-> ZeroFrame]]

\* np.copyto(data_np[insert_ind,:,:], item), one element: pixel p of the slot
copyto_px(q, item, p) ==
    [q EXCEPT !.data[q.insert_ind + 1][p] = item[p]]

\* np.copyto(data_np[insert_ind,:,:], item), the whole slot
CopytoFirstSlot(q, item) ==
    [q EXCEPT !.data[1] = item]

copyto(q, item) ==
    [q EXCEPT !.data[q.insert_ind + 1] = item]

\* a count that goes on growing past the capacity
UnboundedNumel(q) ==
    [q EXCEPT !.numel = q.numel + 1]

\* self.numel.value = min(self.numel.value+1, self.maxlen)
set_numel(q) ==
    [q EXCEPT !.numel = Min(q.numel + 1, q.maxlen)]

\* a write index that saturates at the last slot instead of wrapping
SaturatingInsertInd(q) ==
    [q EXCEPT !.insert_ind = Min(q.insert_ind + 1, q.maxlen - 1)]

\* self.insert_ind.value = (self.insert_ind.value + 1) % self.maxlen
set_insert_ind(q) ==
    [q EXCEPT !.insert_ind = (q.insert_ind + 1) % q.maxlen]

\* BoundedQueue.append, run without interleaving
append(q, item) == set_insert_ind(set_numel(copyto(q, item)))

\* BoundedQueue.get_data: None when numel = 0, else the view data_np[0:numel]
get_data(q) ==
    IF q.numel = 0
    THEN [kind |-> "None", rows |-> << >>]
    ELSE [kind |-> "array", rows |-> Slice(q.data, 0, q.numel)]

\* ------------------------------------------------------- values and results
None == << >>    \* Python's None: no frame has zero pixels

Max(a, b) == IF a >= b THEN a ELSE b

\* what an element of np.empty may hold: any value, also one outside [0, 1]
AnyVals == (0 - 1)..MaxPix
AnyFrames == [Pixels -> AnyVals]

\* Polarity.DARK_ON_BRIGHT = -1, Polarity.BRIGHT_ON_DARK = 1
DARK_ON_BRIGHT == -1
BRIGHT_ON_DARK == 1
Polarity == {DARK_ON_BRIGHT, BRIGHT_ON_DARK}

\* im2single(im2gray(image)) of image_tools: a single-channel floating-point frame
\* in [0, 1], which is what the model's frames are, passes through unchanged
im2single(image) == image

\* a multiplication that leaves the sign alone, whatever the polarity
MultiplyByOne(a, k) == a

\* np.subtract(a, b), np.multiply(a, k), np.maximum(a, 0), element by element
np_subtract(a, b) == [p \in DOMAIN a |-> a[p] - b[p]]
np_multiply(a, k) == [p \in DOMAIN a |-> a[p] * k]
np_maximum(a, k) == [p \in DOMAIN a |-> Max(a[p], k)]

\* np.maximum(0, self.polarity.value*(image_single - self.background))
foreground(image_single, background, polarity) ==
    np_maximum(np_multiply(np_subtract(image_single, background), polarity), 0)

\* scipy.stats.mode along the sample axis: per pixel the most frequent value of
\* the stack (a sequence of frames), the smallest one on a tie
mode(stack) ==
    [p \in Pixels |->
        LET count(v) == Cardinality({k \in 1..Len(stack) : stack[k][p] = v})
            vals == {stack[k][p] : k \in 1..Len(stack)}
        IN  CHOOSE v \in vals :
                \A w \in vals : count(v) > count(w) \/ (count(v) = count(w) /\ v <= w)]

\* self.background_algorithm = self.background_method[method]
background_algorithm(method, stack) ==
    CASE method = "mode" -> mode(stack)

\* nan, the value numpy and scipy give an element reduced over no sample: a
\* number that is no pixel value
NaN == 0 - 2
NaNFrame(h) == [p \in 1..h |-> NaN]

\* scipy.stats.mode(x, axis=2, keepdims=False).mode for an array x of h rows:
\* per row the most frequent value, the smallest one on a tie, nan over no sample
stats_mode(x, h) ==
    IF x = << >> THEN NaNFrame(h)
    ELSE [p \in 1..h |->
            LET count(v) == Cardinality({k \in 1..Len(x) : x[k][p] = v})
                vals == {x[k][p] : k \in 1..Len(x)}
            IN  CHOOSE v \in vals :
                    \A w \in vals :
                        count(v) > count(w) \/ (count(v) = count(w) /\ v <= w)]

\* arr[lo:hi]: the rows lo..hi-1 (0-based) of every frame of the stack
rows(arr, lo, hi) == [k \in 1..Len(arr) |-> Slice(arr[k], lo, hi)]

\* np.vstack(res): the results one under the other, in the order of the list
RECURSIVE np_vstack(_)
np_vstack(res) ==
    IF res = << >> THEN << >> ELSE Head(res) \o np_vstack(Tail(res))

\* the outcome of an aggregation call: the frame returned (val, to be divided by
\* den) or the exception raised
NoAgg ==
    [method |-> "", stack |-> << >>, num_processes |-> 1,
     kind |-> "", val |-> None, den |-> 1, err |-> ""]

\* mode_multiprocessed(arr, num_processes) on an array of NPix rows:
\* chunk_size = int(arr.shape[0] / num_processes); range(0, arr.shape[0], 0) raises
\* ValueError; else the row chunks arr[i:i + chunk_size] go through mode and the
\* results are stacked
mode_multiprocessed(arr, num_processes) ==
    LET chunk_size == NPix \div num_processes
    IN  IF chunk_size = 0
        THEN [NoAgg EXCEPT !.kind = "error", !.err = "ValueError"]
        ELSE LET nchunks == (NPix + chunk_size - 1) \div chunk_size
                 chunks == [j \in 1..nchunks |->
                               rows(arr, (j - 1) * chunk_size, j * chunk_size)]
                 res == [j \in 1..nchunks |->
                            stats_mode(chunks[j],
                                Min(j * chunk_size, NPix) - (j - 1) * chunk_size)]
             IN  [NoAgg EXCEPT !.kind = "frame", !.val = np_vstack(res)]

\* the m-th smallest (m = 1, 2, ...) of the values the stack holds at pixel p
Kth(stack, p, m) ==
    LET vals == {stack[k][p] : k \in 1..Len(stack)}
    IN  CHOOSE v \in vals :
            /\ Cardinality({k \in 1..Len(stack) : stack[k][p] < v}) < m
            /\ Cardinality({k \in 1..Len(stack) : stack[k][p] <= v}) >= m

\* partial(np.mean, axis=2): per pixel the sum of the samples over their number
\* (val over den), nan over no sample
np_mean(stack) ==
    IF stack = << >> THEN [NoAgg EXCEPT !.kind = "frame", !.val = NaNFrame(NPix)]
    ELSE [NoAgg EXCEPT
            !.kind = "frame",
            !.den = Len(stack),
            !.val = [p \in Pixels |->
                        LET sum[k \in 0..Len(stack)] ==
                              IF k = 0 THEN 0 ELSE sum[k - 1] + stack[k][p]
                        IN  sum[Len(stack)]]]

\* partial(np.median, axis=2): per pixel the middle sample, or the mean of the two
\* middle ones (val over den), nan over no sample
np_median(stack) ==
    IF stack = << >> THEN [NoAgg EXCEPT !.kind = "frame", !.val = NaNFrame(NPix)]
    ELSE LET K == Len(stack)
         IN  [NoAgg EXCEPT
                !.kind = "frame",
                !.den = 2,
                !.val = [p \in Pixels |->
                            Kth(stack, p, (K + 1) \div 2) + Kth(stack, p, (K \div 2) + 1)]]

\* the outcome of a call: what it returned (kind "frame", "None" or "ok") or the
\* exception it raised (kind "error"), with what the call was given and met
NoRet ==
    [op |-> "", kind |-> "", val |-> None, err |-> "", image |-> None,
     was_initialized |-> FALSE, chunk |-> 0 - 1, read_failed |-> FALSE, den |-> 1,
     indices |-> << >>]

Returned(op, kind, val) ==
    [NoRet EXCEPT !.op = op, !.kind = kind, !.val = val,
                  !.was_initialized = self.initialized]

Raised(op, err) ==
    [NoRet EXCEPT !.op = op, !.kind = "error", !.err = err,
                  !.was_initialized = self.initialized]

\* ------------------------------------------------------------- VideoSource
\* the frame the video holds at index i (0-based)
VideoFrame(i) == [p \in Pixels |-> (i + p) % (MaxPix + 1)]

\* next_frame() after seek_to(index): whether it succeeds
ReadOk(index) ==
    /\ index \in 0..(video.numframes - 1)
    /\ index \notin video.bad

\* np.linspace(start, stop, num, dtype=np.int64): start + i*(stop-start)/(num-1),
\* brought down to an integer
linspace(start, stop, num) ==
    [i \in 1..num |->
        IF num = 1 THEN start
        ELSE start + (((i - 1) * (stop - start)) \div (num - 1))]

\* the stacks sample_frames_evenly can return for these indices: np.empty, then
\* slot i is filled when the read of indices[i] succeeds and left as it is when
\* the read fails (the RuntimeError is built but not raised)
SampleStacks(indices) ==
    Product([i \in 1..Len(indices) |->
                IF ReadOk(indices[i])
                THEN {im2single(VideoFrame(indices[i]))}
                ELSE AnyFrames])

ReadFailed(indices) == \E i \in 1..Len(indices) : ~ReadOk(indices[i])

\* ------------------------------------------------- BackgroundSubtractor
\* BackgroundSubtractor.__init__ and the subclasses' __init__: every attribute a
\* subclass sets, at its value after construction
NewObject(cls) ==
    [cls |-> cls, initialized |-> FALSE, polarity |-> BRIGHT_ON_DARK,
     method |-> "mode", background |-> None,
     image_file |-> [ext |-> "", image |-> None], image_single |-> None,
     frame_num |-> 0, num_sample_frames |-> 1, num_chunks |-> 1,
     numframes |-> 0, image_count |-> 0,
     sample_every_n_frames |-> 1, frame_collection |-> << >>, curr_image |-> 0,
     num_images |-> 1, every_n_image |-> 1, counter |-> 0, proc_compute |-> 0]

NoVideo == [numframes |-> 0, bad |-> {}, pos |-> 0]

\* BackgroundSubtractor.set_polarity
set_polarity(polarity) ==
    /\ self.cls # ""
    /\ polarity # self.polarity
    /\ self' = [self EXCEPT !.polarity = polarity]
    /\ ret' = Returned("set_polarity", "ok", None)
    /\ UNCHANGED <<video, queueVars, agg, mpVars>>

\* ---------------------------------------------------------- NoBackgroundSub
NoBackgroundSub_initialize ==
    /\ self.cls = "NoBackgroundSub"
    /\ self' = [self EXCEPT !.initialized = TRUE]
    /\ ret' = Returned("initialize", "ok", None)
    /\ UNCHANGED <<video, queueVars, agg, mpVars>>

NoBackgroundSub_get_background_image ==
    /\ self.cls = "NoBackgroundSub"
    /\ ret' = Returned("get_background_image", "frame", ZeroFrame)
    /\ UNCHANGED <<self, video, queueVars, agg, mpVars>>

NoBackgroundSub_subtract_background(image) ==
    /\ self.cls = "NoBackgroundSub"
    /\ ret' = [Returned("subtract_background", "frame", im2single(image))
                  EXCEPT !.image = image]
    /\ UNCHANGED <<self, video, queueVars, agg, mpVars>>

\* ----------------------------------------------------------- BackroundImage
\* an extension list that also takes .bmp files
LenientImageExts == {".png", ".jpg", ".jpeg", ".tif", ".tiff", ".bmp"}

\* elif ext in ['.png', '.jpg', '.jpeg', '.tif', '.tiff']
ImageExts == {".png", ".jpg", ".jpeg", ".tif", ".tiff"}

BackroundImage_initialize ==
    /\ self.cls = "BackroundImage"
    /\ IF self.image_file.ext = ".npy" \/ self.image_file.ext \in ImageExts
       THEN /\ self' = [self EXCEPT
                            !.background = im2single(self.image_file.image),
                            !.image_single = ZeroFrame,
                            !.initialized = TRUE]
            /\ ret' = Returned("initialize", "ok", None)
       ELSE /\ self' = self
            /\ ret' = Raised("initialize", "ValueError")
    /\ UNCHANGED <<video, queueVars, agg, mpVars>>

\* get_background_image of BackroundImage, InpaintBackground, StaticBackground
\* and DynamicBackground: self.background if self.initialized else None
get_background_image ==
    /\ self.cls \in {"BackroundImage", "InpaintBackground", "StaticBackground",
                     "DynamicBackground"}
    /\ ret' = IF self.initialized
              THEN IF self.background = None
                   THEN Returned("get_background_image", "None", None)
                   ELSE Returned("get_background_image", "frame", self.background)
              ELSE Returned("get_background_image", "None", None)
    /\ UNCHANGED <<self, video, queueVars, agg, mpVars>>

\* the attribute image_single exists only once initialize has run
BackroundImage_subtract_background(image) ==
    /\ self.cls = "BackroundImage"
    /\ IF self.image_single = None
       THEN /\ self' = self
            /\ ret' = [Raised("subtract_background", "AttributeError")
                          EXCEPT !.image = image]
       ELSE LET out == np_maximum(np_multiply(
                          np_subtract(im2single(image), self.background),
                          self.polarity), 0)
            IN  /\ self' = [self EXCEPT !.image_single = out]
                /\ ret' = [Returned("subtract_background", "frame", out)
                              EXCEPT !.image = image]
    /\ UNCHANGED <<video, queueVars, agg, mpVars>>

\* -------------------------------------------------------- InpaintBackground
\* get_frame leaves img unbound when the read fails (the RuntimeError is built but
\* not raised) and `return img` raises UnboundLocalError; cv2.inpaint fills the
\* masked pixels, and polymask lets the user mask any of them
InpaintBackground_initialize ==
    /\ self.cls = "InpaintBackground"
    /\ IF ReadOk(self.frame_num)
       THEN /\ video' = [video EXCEPT !.pos = self.frame_num + 1]
            /\ \E mask \in SUBSET Pixels, inpainted \in Frames :
                 /\ \A p \in Pixels \ mask :
                        inpainted[p] = im2single(VideoFrame(self.frame_num))[p]
                 /\ self' = [self EXCEPT !.background = inpainted,
                                         !.initialized = TRUE]
            /\ ret' = Returned("initialize", "ok", None)
       ELSE /\ video' = [video EXCEPT !.pos = self.frame_num]
            /\ self' = self
            /\ ret' = [Raised("initialize", "UnboundLocalError")
                          EXCEPT !.read_failed = TRUE]
    /\ UNCHANGED <<queueVars, agg, mpVars>>

\* subtract_background of InpaintBackground and StaticBackground; the array minus
\* a background that is still None raises TypeError
subtract_background(image) ==
    /\ self.cls \in {"InpaintBackground", "StaticBackground"}
    /\ ret' = IF self.background = None
              THEN [Raised("subtract_background", "TypeError")
                       EXCEPT !.image = image]
              ELSE [Returned("subtract_background", "frame",
                             foreground(im2single(image), self.background,
                                        self.polarity))
                       EXCEPT !.image = image]
    /\ UNCHANGED <<self, video, queueVars, agg, mpVars>>

\* --------------------------------------------------------- StaticBackground
StaticBackground_sample_indices ==
    linspace(0, video.numframes - 1, self.num_sample_frames)

\* sample_frames_evenly, compute_background, reset_reader, initialized = True
StaticBackground_initialize ==
    /\ self.cls = "StaticBackground"
    /\ \E frame_collection \in SampleStacks(StaticBackground_sample_indices) :
         self' = [self EXCEPT
                    !.background = background_algorithm(self.method, frame_collection),
                    !.initialized = TRUE]
    /\ video' = [video EXCEPT !.pos = 0]
    /\ ret' = [Returned("initialize", "ok", None)
                  EXCEPT !.read_failed = ReadFailed(StaticBackground_sample_indices),
                         !.indices = StaticBackground_sample_indices]
    /\ UNCHANGED <<queueVars, agg, mpVars>>

\* -------------------------------------------------- StaticBackgroundChunked
\* int(chunk/self.num_chunks * self.numframes)
ChunkStart(chunk, num_chunks, numframes) == (chunk * numframes) \div num_chunks

\* the indices sample_frames_evenly(chunk) reads (chunk is 0-based)
StaticBackgroundChunked_sample_indices(chunk, numframes) ==
    linspace(ChunkStart(chunk, self.num_chunks, numframes),
             ChunkStart(chunk + 1, self.num_chunks, numframes) - 1,
             self.num_sample_frames)

\* initialize: one background per chunk, each the aggregate of that chunk's stack
StaticBackgroundChunked_initialize ==
    /\ self.cls = "StaticBackgroundChunked"
    /\ \E background \in Product([c \in 1..self.num_chunks |->
            {background_algorithm(self.method, frame_collection) :
                frame_collection \in SampleStacks(
                    StaticBackgroundChunked_sample_indices(c - 1, video.numframes))}]) :
         self' = [self EXCEPT !.numframes = video.numframes,
                              !.background = background,
                              !.initialized = TRUE]
    /\ video' = [video EXCEPT !.pos = 0]
    /\ ret' = [Returned("initialize", "ok", None) EXCEPT
                 !.read_failed =
                    \E c \in 1..self.num_chunks :
                       ReadFailed(StaticBackgroundChunked_sample_indices(
                                      c - 1, video.numframes)),
                 !.indices =
                    [c \in 1..self.num_chunks |->
                        StaticBackgroundChunked_sample_indices(c - 1, video.numframes)]]
    /\ UNCHANGED <<queueVars, agg, mpVars>>

\* np.mean(self.background, axis=2): per pixel the sum over the chunks, to be
\* divided by ret.den = num_chunks
StaticBackgroundChunked_get_background_image ==
    /\ self.cls = "StaticBackgroundChunked"
    /\ ret' = IF self.initialized
              THEN [Returned("get_background_image", "frame",
                       [p \in Pixels |->
                          LET sum[c \in 0..self.num_chunks] ==
                                IF c = 0 THEN 0 ELSE sum[c - 1] + self.background[c][p]
                          IN  sum[self.num_chunks]])
                      EXCEPT !.den = self.num_chunks]
              ELSE Returned("get_background_image", "None", None)
    /\ UNCHANGED <<self, video, queueVars, agg, mpVars>>

\* chunk = self.image_count // (self.numframes // self.num_chunks)
chunk_index(image_count, numframes, num_chunks) ==
    image_count \div (numframes \div num_chunks)

StaticBackgroundChunked_subtract_background(image) ==
    /\ self.cls = "StaticBackgroundChunked"
    /\ self.image_count < MaxCalls
    /\ IF self.numframes \div self.num_chunks = 0
       THEN /\ self' = self
            /\ ret' = [Raised("subtract_background", "ZeroDivisionError")
                          EXCEPT !.image = image]
       ELSE LET chunk == chunk_index(self.image_count, self.numframes,
                                     self.num_chunks)
            IN  IF chunk >= self.num_chunks
                THEN /\ self' = self
                     /\ ret' = [Raised("subtract_background", "IndexError")
                                   EXCEPT !.image = image, !.chunk = chunk]
                ELSE /\ self' = [self EXCEPT !.image_count = self.image_count + 1]
                     /\ ret' = [Returned("subtract_background", "frame",
                                     foreground(im2single(image),
                                                self.background[chunk + 1],
                                                self.polarity))
                                   EXCEPT !.image = image, !.chunk = chunk]
    /\ UNCHANGED <<video, queueVars, agg, mpVars>>

\* -------------------------------------------------------- DynamicBackground
\* a collection that never evicts
UnboundedAppend(frame_collection, maxlen, image) == Append(frame_collection, image)

\* deque(maxlen=num_sample_frames).append: the oldest frame leaves a full deque
deque_append(frame_collection, maxlen, image) ==
    IF Len(frame_collection) < maxlen
    THEN Append(frame_collection, image)
    ELSE Append(Tail(frame_collection), image)

DynamicBackground_initialize ==
    /\ self.cls = "DynamicBackground"
    /\ self' = [self EXCEPT !.initialized = TRUE]
    /\ ret' = Returned("initialize", "ok", None)
    /\ UNCHANGED <<video, queueVars, agg, mpVars>>

DynamicBackground_subtract_background(image) ==
    /\ self.cls = "DynamicBackground"
    /\ self.curr_image < MaxCalls
    /\ LET sampled == self.curr_image % self.sample_every_n_frames = 0
           frame_collection ==
               IF sampled
               THEN deque_append(self.frame_collection, self.num_sample_frames, image)
               ELSE self.frame_collection
           background ==
               IF sampled
               THEN background_algorithm(self.method, frame_collection)
               ELSE self.background
       IN  /\ self' = [self EXCEPT !.frame_collection = frame_collection,
                                   !.background = background,
                                   !.curr_image = self.curr_image + 1]
           /\ ret' = [Returned("subtract_background", "frame",
                               foreground(image, background, self.polarity))
                         EXCEPT !.image = image]
    /\ ghost' = [ghost EXCEPT !.images = Append(ghost.images, image)]
    /\ UNCHANGED <<video, queueVars, agg, shared, workers, prod>>

\* ------------------------------------------------------ DynamicBackgroundMP
\* DynamicBackgroundMP.__init__: stop_flag = Event() (clear), background =
\* RawArray (zeroed), image_store = BoundedQueue((height,width), maxlen=num_images).
\* BoundedQueue.numel is a Value('i',0), a synchronized wrapper: every access to
\* numel.value takes the wrapper's lock, held by "producer", "worker" or "free"
\* (insert_ind has a lock of its own, which the producer alone ever takes)
NewShared(num_images) ==
    [stop_flag |-> FALSE, background |-> ZeroFrame,
     image_store |-> BoundedQueue(num_images), numel_lock |-> "free"]

\* a process running compute_background: where it stands (pc), the number of rows
\* of the view get_data() gave it (n), the pixel it works on next (px), what it
\* has read from the slots of the view (data) and the aggregate it computed
\* (bckg_img)
NoWorker == [pc |-> "none", n |-> 0, px |-> 0, data |-> << >>, bckg_img |-> ZeroFrame]
Running == {"while", "get_data", "numel_value", "aggregate", "publish"}
Alive(w) == workers[w].pc \in Running

\* the caller's place inside the call it is making on the engine
Idle == [pc |-> "idle", image |-> None, px |-> 0, out |-> ZeroFrame]

\* history: the first frame subtract_background was given (bootstrap), whether a
\* worker has written to the published background (publish_started), whether
\* one has written a whole aggregate to it (recomputed) and the aggregates the
\* workers have begun to publish (aggregates); for the in-process streaming
\* variant, the frames subtract_background was given, oldest first (images);
\* the frames the producer has handed to image_store.append (frames)
NoGhost ==
    [bootstrap |-> None, publish_started |-> FALSE, recomputed |-> FALSE,
     aggregates |-> {}, images |-> << >>, frames |-> {}]

\* start(): a new Process(target=self.compute_background, ...) is created, kept in
\* self.proc_compute and started; initialize() then sets initialized = True
DynamicBackgroundMP_initialize ==
    /\ self.cls = "DynamicBackgroundMP"
    /\ prod.pc = "idle"
    /\ \E w \in 1..MaxStarts :
         /\ workers[w].pc = "none"
         /\ \A v \in 1..(w - 1) : workers[v].pc # "none"
         /\ workers' = [workers EXCEPT ![w] = [NoWorker EXCEPT !.pc = "while"]]
         /\ self' = [self EXCEPT !.proc_compute = w, !.initialized = TRUE]
    /\ ret' = Returned("initialize", "ok", None)
    /\ UNCHANGED <<shared, prod, ghost, video, queueVars, agg>>

\* stop(): self.stop_flag.set(), then self.proc_compute.join(), which raises
\* AttributeError when start() never ran
DynamicBackgroundMP_stop ==
    /\ self.cls = "DynamicBackgroundMP"
    /\ prod.pc = "idle"
    /\ shared' = [shared EXCEPT !.stop_flag = TRUE]
    /\ IF self.proc_compute = 0
       THEN /\ ret' = Raised("stop", "AttributeError")
            /\ prod' = prod
       ELSE /\ ret' = ret
            /\ prod' = [Idle EXCEPT !.pc = "join"]
    /\ UNCHANGED <<self, workers, ghost, video, queueVars, agg>>

\* self.proc_compute.join() returns once that process has ended
DynamicBackgroundMP_stop_join ==
    /\ prod.pc = "join"
    /\ ~Alive(self.proc_compute)
    /\ prod' = Idle
    /\ ret' = Returned("stop", "ok", None)
    /\ UNCHANGED <<self, shared, workers, ghost, video, queueVars, agg>>

\* a seed of the published background on every call that appends
AlwaysBootstrap(counter) == TRUE

\* if self.counter == 0: the call that seeds the published background
IsBootstrapCall(counter) == counter = 0

\* subtract_background(image), entered, as one of at most max_calls calls: if
\* self.counter % self.every_n_image == 0 the frame goes to image_store, else the
\* call goes on to count and subtract
subtract_background_entry(image, max_calls) ==
    /\ self.cls = "DynamicBackgroundMP"
    /\ prod.pc = "idle"
    /\ self.counter < max_calls
    /\ IF self.counter % self.every_n_image = 0
       THEN /\ prod' = [Idle EXCEPT !.pc = "copyto", !.image = image, !.px = 1]
            /\ self' = self
       ELSE /\ prod' = [Idle EXCEPT !.pc = "get_background", !.image = image, !.px = 1]
            /\ self' = [self EXCEPT !.counter = self.counter + 1]
    /\ ghost' = [ghost EXCEPT
                   !.bootstrap = IF self.counter = 0 THEN image ELSE @,
                   !.frames = IF self.counter % self.every_n_image = 0
                              THEN @ \cup {image} ELSE @]
    /\ UNCHANGED <<shared, workers, ret, video, queueVars, agg>>

DynamicBackgroundMP_subtract_background(image) ==
    subtract_background_entry(image, MaxMPCalls)

\* image_store.append: np.copyto writes the slot element after element
DynamicBackgroundMP_append_copyto ==
    /\ prod.pc = "copyto"
    /\ shared' = [shared EXCEPT
                    !.image_store = copyto_px(shared.image_store, prod.image, prod.px)]
    /\ prod' = IF prod.px < NPix
               THEN [prod EXCEPT !.px = prod.px + 1]
               ELSE [prod EXCEPT !.pc = "numel", !.px = 0]
    /\ UNCHANGED <<self, workers, ret, ghost, video, queueVars, agg>>

\* self.numel.value = ...: the lock of numel is taken once it is free
DynamicBackgroundMP_append_numel_acquire ==
    /\ prod.pc = "numel"
    /\ shared.numel_lock = "free"
    /\ shared' = [shared EXCEPT !.numel_lock = "producer"]
    /\ prod' = [prod EXCEPT !.pc = "numel_value"]
    /\ UNCHANGED <<self, workers, ret, ghost, video, queueVars, agg>>

\* self.numel.value = min(self.numel.value+1, self.maxlen), and the lock released
\* (the read and the write each take the lock; no other process writes numel)
DynamicBackgroundMP_append_numel ==
    /\ prod.pc = "numel_value"
    /\ shared' = [shared EXCEPT !.image_store = set_numel(shared.image_store),
                                !.numel_lock = "free"]
    /\ prod' = [prod EXCEPT !.pc = "insert_ind"]
    /\ UNCHANGED <<self, workers, ret, ghost, video, queueVars, agg>>

\* the last statement of append; then `if self.counter == 0` and, when the
\* background is not to be seeded, self.counter = self.counter + 1
DynamicBackgroundMP_append_insert_ind ==
    /\ prod.pc = "insert_ind"
    /\ shared' = [shared EXCEPT !.image_store = set_insert_ind(shared.image_store)]
    /\ IF IsBootstrapCall(self.counter)
       THEN /\ prod' = [prod EXCEPT !.pc = "seed", !.px = 1]
            /\ self' = self
       ELSE /\ prod' = [prod EXCEPT !.pc = "get_background", !.px = 1]
            /\ self' = [self EXCEPT !.counter = self.counter + 1]
    /\ UNCHANGED <<workers, ret, ghost, video, queueVars, agg>>

\* self.background[:] = image.flatten(), element after element; then
\* self.counter = self.counter + 1
DynamicBackgroundMP_seed_background ==
    /\ prod.pc = "seed"
    /\ shared' = [shared EXCEPT !.background[prod.px] = prod.image[prod.px]]
    /\ IF prod.px < NPix
       THEN /\ prod' = [prod EXCEPT !.px = prod.px + 1]
            /\ self' = self
       ELSE /\ prod' = [prod EXCEPT !.pc = "get_background", !.px = 1]
            /\ self' = [self EXCEPT !.counter = self.counter + 1]
    /\ UNCHANGED <<workers, ret, ghost, video, queueVars, agg>>

\* get_background(): np.frombuffer gives a view of the shared array, no copy
get_background(sh) == sh.background

\* bckg = self.get_background(); np.maximum(0, polarity*(image - bckg)) reads the
\* view element after element; the call returns after the last one
DynamicBackgroundMP_subtract_return ==
    /\ prod.pc = "get_background"
    /\ LET out == [prod.out EXCEPT ![prod.px] =
                     Max(0, self.polarity *
                            (prod.image[prod.px] - get_background(shared)[prod.px]))]
       IN  IF prod.px < NPix
           THEN /\ prod' = [prod EXCEPT !.px = prod.px + 1, !.out = out]
                /\ ret' = ret
           ELSE /\ prod' = Idle
                /\ ret' = [Returned("subtract_background", "frame", out)
                              EXCEPT !.image = prod.image]
    /\ UNCHANGED <<self, shared, workers, ghost, video, queueVars, agg>>

\* what get_background_image() returns: the view if self.initialized, else None
DynamicBackgroundMP_background_image ==
    IF self.initialized THEN get_background(shared) ELSE None

DynamicBackgroundMP_get_background_image ==
    /\ self.cls = "DynamicBackgroundMP"
    /\ prod.pc = "idle"
    /\ ret' = IF self.initialized
              THEN Returned("get_background_image", "frame",
                            DynamicBackgroundMP_background_image)
              ELSE Returned("get_background_image", "None", None)
    /\ UNCHANGED <<self, shared, workers, prod, ghost, video, queueVars, agg>>

\* compute_background, in worker w: while not stop_flag.is_set()
\* a loop that never looks at the stop signal
IgnoreStopWhile(w) ==
    /\ workers[w].pc = "while"
    /\ workers' = [workers EXCEPT ![w].pc = "get_data"]
    /\ UNCHANGED <<self, shared, prod, ret, ghost, video, queueVars, agg>>

compute_background_while(w) ==
    /\ workers[w].pc = "while"
    /\ workers' = [workers EXCEPT ![w].pc =
                      IF shared.stop_flag THEN "exited" ELSE "get_data"]
    /\ UNCHANGED <<self, shared, prod, ret, ghost, video, queueVars, agg>>

\* get_data(): self.numel.value takes the lock of numel once it is free
compute_background_get_data_acquire(w) ==
    /\ workers[w].pc = "get_data"
    /\ shared.numel_lock = "free"
    /\ shared' = [shared EXCEPT !.numel_lock = "worker"]
    /\ workers' = [workers EXCEPT ![w].pc = "numel_value"]
    /\ UNCHANGED <<self, prod, ret, ghost, video, queueVars, agg>>

\* data = image_store.get_data().transpose((1,2,0)): numel is read and its lock
\* released; get_data() is None while the store is empty and None has no
\* transpose (AttributeError ends the process); else data is a view of the first
\* numel slots
compute_background_get_data(w) ==
    /\ workers[w].pc = "numel_value"
    /\ shared' = [shared EXCEPT !.numel_lock = "free"]
    /\ LET data == get_data(shared.image_store)
       IN  workers' = [workers EXCEPT ![w] =
              IF data.kind = "None"
              THEN [NoWorker EXCEPT !.pc = "crashed"]
              ELSE [NoWorker EXCEPT !.pc = "aggregate", !.n = Len(data.rows),
                                    !.px = 1,
                                    !.data = [i \in 1..Len(data.rows) |-> ZeroFrame]]]
    /\ UNCHANGED <<self, prod, ret, ghost, video, queueVars, agg>>

\* bckg_img = self.background_algorithm(data): pixel px of each of the n slots of
\* the view is read as the slot holds it now, and pixel px of the aggregate
\* computed from what was read
compute_background_aggregate(w) ==
    /\ workers[w].pc = "aggregate"
    /\ LET px == workers[w].px
           data == [i \in 1..workers[w].n |->
                      [workers[w].data[i] EXCEPT
                          ![px] = shared.image_store.data[i][px]]]
           bckg_img == [workers[w].bckg_img EXCEPT
                           ![px] = background_algorithm(self.method, data)[px]]
       IN  workers' = [workers EXCEPT ![w] =
              IF px < NPix
              THEN [workers[w] EXCEPT !.px = px + 1, !.data = data,
                                      !.bckg_img = bckg_img]
              ELSE [workers[w] EXCEPT !.pc = "publish", !.px = 1, !.data = data,
                                      !.bckg_img = bckg_img]]
    /\ UNCHANGED <<self, shared, prod, ret, ghost, video, queueVars, agg>>

\* background[:] = bckg_img.flatten(), element after element
compute_background_publish(w) ==
    /\ workers[w].pc = "publish"
    /\ LET px == workers[w].px
       IN  /\ shared' = [shared EXCEPT !.background[px] = workers[w].bckg_img[px]]
           /\ workers' = [workers EXCEPT ![w] =
                 IF px < NPix
                 THEN [workers[w] EXCEPT !.px = px + 1]
                 ELSE [NoWorker EXCEPT !.pc = "while"]]
           /\ ghost' = [ghost EXCEPT !.publish_started = TRUE,
                                     !.recomputed = @ \/ px = NPix,
                                     !.aggregates = @ \cup {workers[w].bckg_img}]
    /\ UNCHANGED <<self, prod, ret, video, queueVars, agg>>

\* ------------------------------------- specification of the offloaded engine
InitMP ==
    /\ queue = BoundedQueue(1)
    /\ appended = << >>
    /\ video = NoVideo
    /\ ret = NoRet
    /\ prod = Idle
    /\ ghost = NoGhost
    /\ agg = NoAgg
    /\ workers = [w \in 1..MaxStarts |-> NoWorker]
    /\ \E num_images \in 1..MaxImages, every_n_image \in 1..MaxEvery :
         /\ self = [NewObject("DynamicBackgroundMP") EXCEPT
                       !.num_images = num_images, !.every_n_image = every_n_image]
         /\ shared = NewShared(num_images)

NextMP ==
    \/ DynamicBackgroundMP_initialize
    \/ DynamicBackgroundMP_stop
    \/ DynamicBackgroundMP_stop_join
    \/ \E image \in Frames : DynamicBackgroundMP_subtract_background(image)
    \/ DynamicBackgroundMP_append_copyto
    \/ DynamicBackgroundMP_append_numel_acquire
    \/ DynamicBackgroundMP_append_numel
    \/ DynamicBackgroundMP_append_insert_ind
    \/ DynamicBackgroundMP_seed_background
    \/ DynamicBackgroundMP_subtract_return
    \/ DynamicBackgroundMP_get_background_image
    \/ \E w \in 1..MaxStarts :
         \/ compute_background_while(w)
         \/ compute_background_get_data_acquire(w)
         \/ compute_background_get_data(w)
         \/ compute_background_aggregate(w)
         \/ compute_background_publish(w)

SpecMP == InitMP /\ [][NextMP]_vars

\* ------------------------------------------- specification of the variants
Videos ==
    {[numframes |-> n, bad |-> b, pos |-> 0] :
        n \in 1..MaxFrames, b \in {{}} \cup {{i} : i \in 0..(MaxFrames - 1)}}

Init ==
    /\ queue = BoundedQueue(1)
    /\ appended = << >>
    /\ ret = NoRet
    /\ shared = NewShared(1)
    /\ workers = [w \in 1..MaxStarts |-> NoWorker]
    /\ prod = Idle
    /\ ghost = NoGhost
    /\ agg = NoAgg
    /\ \E polarity \in Polarity :
         \/ /\ self = [NewObject("NoBackgroundSub") EXCEPT !.polarity = polarity]
            /\ video = NoVideo
         \/ /\ \E ext \in {".npy", ".png", ".bmp"}, image \in Frames :
                 self = [NewObject("BackroundImage") EXCEPT
                            !.polarity = polarity,
                            !.image_file = [ext |-> ext, image |-> image]]
            /\ video = NoVideo
         \/ /\ self = [NewObject("InpaintBackground") EXCEPT !.polarity = polarity]
            /\ video \in Videos
         \/ /\ \E n \in 1..MaxSamples :
                 self = [NewObject("StaticBackground") EXCEPT
                            !.polarity = polarity, !.num_sample_frames = n]
            /\ video \in Videos
         \/ /\ \E n \in 1..MaxSamples, k \in 1..MaxChunks :
                 self = [NewObject("StaticBackgroundChunked") EXCEPT
                            !.polarity = polarity, !.num_sample_frames = n,
                            !.num_chunks = k]
            /\ video \in Videos
         \/ /\ \E n \in 1..MaxSamples, m \in 1..MaxEvery :
                 self = [NewObject("DynamicBackground") EXCEPT
                            !.polarity = polarity, !.num_sample_frames = n,
                            !.sample_every_n_frames = m]
            /\ video = NoVideo

Next ==
    \/ \E polarity \in Polarity : set_polarity(polarity)
    \/ NoBackgroundSub_initialize
    \/ NoBackgroundSub_get_background_image
    \/ \E image \in Frames : NoBackgroundSub_subtract_background(image)
    \/ BackroundImage_initialize
    \/ \E image \in Frames : BackroundImage_subtract_background(image)
    \/ get_background_image
    \/ InpaintBackground_initialize
    \/ \E image \in Frames : subtract_background(image)
    \/ StaticBackground_initialize
    \/ StaticBackgroundChunked_initialize
    \/ StaticBackgroundChunked_get_background_image
    \/ \E image \in Frames : StaticBackgroundChunked_subtract_background(image)
    \/ DynamicBackground_initialize
    \/ \E image \in Frames : DynamicBackground_subtract_background(image)

Spec == Init /\ [][Next]_vars

\* C1: subtract_background on an initialized model returns a frame of the shape of
\* its input whose every element is >= 0, whatever the variant, the polarity, the
\* background and the input.
C1_SubtractNonNegative ==
    (ret.op = "subtract_background" /\ ret.was_initialized) =>
        /\ ret.kind = "frame"
        /\ DOMAIN ret.val = DOMAIN ret.image
        /\ \A p \in DOMAIN ret.val : ret.val[p] >= 0

\* C6: get_background_image() returns None whenever initialize() has not yet
\* completed, whatever the variant.
C6_NoneBeforeInitialize ==
    (ret.op = "get_background_image" /\ ~ret.was_initialized) => ret.kind = "None"

\* C8: subtract_background called while is_initialized() is false raises an error,
\* returns no frame and changes no attribute of the model.
C8_SubtractBeforeInitializeRejected ==
    [][(ret'.op = "subtract_background" /\ ~self.initialized) =>
            (ret'.kind = "error" /\ self' = self)]_vars

\* C9: the chunk index a chunked static model selects its background with never
\* exceeds num_chunks - 1, over every sequence of calls after initialize(), and
\* does not decrease from one call to the next.
C9_ChunkIndexClamped ==
    [][(/\ self.cls = "StaticBackgroundChunked"
        /\ self.initialized
        /\ ret'.op = "subtract_background")
         => /\ ret'.chunk <= self.num_chunks - 1
            /\ (ret.op = "subtract_background" /\ ret.kind = "frame")
                   => ret.chunk <= ret'.chunk]_vars

\* C10: an initialize() during which a read of the video source failed raises an
\* error and leaves the model uninitialized.
C10_FailedReadSurfaced ==
    (ret.op = "initialize" /\ ret.read_failed) =>
        (ret.kind = "error" /\ ~self.initialized)

\* ------------------------------- specification of the static image variant
\* os.path.splitext(image_file_name)[1] of the files the model is built with
FileExts == {".npy", ".png", ".tiff", ".bmp", ".PNG", ""}

InitImage ==
    /\ queue = BoundedQueue(1)
    /\ appended = << >>
    /\ ret = NoRet
    /\ shared = NewShared(1)
    /\ workers = [w \in 1..MaxStarts |-> NoWorker]
    /\ prod = Idle
    /\ ghost = NoGhost
    /\ agg = NoAgg
    /\ video = NoVideo
    /\ \E polarity \in Polarity, ext \in FileExts, image \in Frames :
         self = [NewObject("BackroundImage") EXCEPT
                    !.polarity = polarity,
                    !.image_file = [ext |-> ext, image |-> image]]

NextImage ==
    \/ \E polarity \in Polarity : set_polarity(polarity)
    \/ BackroundImage_initialize
    \/ \E image \in Frames : BackroundImage_subtract_background(image)
    \/ get_background_image

SpecImage == InitImage /\ [][NextImage]_vars

\* C12: where the frame is greater than the background, subtract_background
\* yields a strictly positive value under BRIGHT_ON_DARK and exactly 0 under
\* DARK_ON_BRIGHT, and the other way round where the frame is lower; the
\* polarity in force is the one the last set_polarity gave, and set_polarity
\* changes nothing else.
C12_PolaritySelectsSign ==
    [][/\ (ret'.op = "subtract_background" /\ self.initialized) =>
             /\ ret'.kind = "frame"
             /\ \A p \in Pixels :
                  LET f == ret'.image[p]
                      b == self.background[p]
                      v == ret'.val[p]
                  IN  /\ (f > b /\ self.polarity = BRIGHT_ON_DARK) => v > 0
                      /\ (f > b /\ self.polarity = DARK_ON_BRIGHT) => v = 0
                      /\ (f < b /\ self.polarity = BRIGHT_ON_DARK) => v = 0
                      /\ (f < b /\ self.polarity = DARK_ON_BRIGHT) => v > 0
       /\ ret'.op = "set_polarity" =>
             /\ self'.polarity \in Polarity \ {self.polarity}
             /\ self' = [self EXCEPT !.polarity = self'.polarity]]_vars

C12_Witness ==
    /\ self.cls = "BackroundImage"
    /\ ret.op = "subtract_background"
    /\ ret.kind = "frame"
    /\ self.polarity = DARK_ON_BRIGHT
    /\ \E p \in Pixels : ret.image[p] > self.background[p] /\ ret.val[p] = 0
    /\ \E p \in Pixels : ret.image[p] < self.background[p] /\ ret.val[p] > 0

\* C14: a static image model whose background file has an extension other than
\* .npy, .png, .jpg, .jpeg, .tif, .tiff never becomes initialized: initialize()
\* raises ValueError and get_background_image() returns None, before and after.
C14_UnknownExtensionRejected ==
    (/\ self.cls = "BackroundImage"
     /\ self.image_file.ext \notin {".npy", ".png", ".jpg", ".jpeg", ".tif", ".tiff"}) =>
        /\ ~self.initialized
        /\ self.background = None
        /\ ret.op = "initialize" => (ret.kind = "error" /\ ret.err = "ValueError")
        /\ ret.op = "get_background_image" => ret.kind = "None"

C14_Witness ==
    /\ self.cls = "BackroundImage"
    /\ self.image_file.ext = ".bmp"
    /\ ret.op = "initialize"
    /\ ret.kind = "error"
    /\ ~self.initialized

\* ------------------------------ specification of the aggregation algorithms
\* the sample stacks of k frames
Stacks(k) == [1..k -> Frames]

\* BackgroundSubtractor.background_method[method] called on a stack: the outcome
\* is kept with the arguments
background_method(method, stack, num_processes) ==
    [(CASE method = "mode" ->
             [NoAgg EXCEPT !.kind = "frame", !.val = stats_mode(stack, NPix)]
        [] method = "mode_multiprocessed" -> mode_multiprocessed(stack, num_processes)
        [] method = "mean" -> np_mean(stack)
        [] method = "median" -> np_median(stack))
     EXCEPT !.method = method, !.stack = stack, !.num_processes = num_processes]

InitAgg ==
    /\ queue = BoundedQueue(1)
    /\ appended = << >>
    /\ self = NewObject("")
    /\ video = NoVideo
    /\ ret = NoRet
    /\ shared = NewShared(1)
    /\ workers = [w \in 1..MaxStarts |-> NoWorker]
    /\ prod = Idle
    /\ ghost = NoGhost
    /\ \E k \in 0..MaxStack : \E stack \in Stacks(k) :
         \E num_processes \in 1..MaxProcs :
           \E method \in {"mode", "mode_multiprocessed", "mean", "median"} :
             /\ method # "mode_multiprocessed" => num_processes = 1
             /\ agg = [NoAgg EXCEPT !.method = method, !.stack = stack,
                                    !.num_processes = num_processes]

\* self.background_algorithm(frame_collection)
aggregate ==
    /\ agg.kind = ""
    /\ agg' = background_method(agg.method, agg.stack, agg.num_processes)
    /\ UNCHANGED <<queueVars, modelVars, mpVars>>

NextAgg == aggregate

SpecAgg == InitAgg /\ [][NextAgg]_vars

\* C13: for every sample stack (of at least one frame) and every row-partition
\* count P, mode_multiprocessed returns a frame and it is pixel for pixel the frame
\* the direct mode returns for the same stack.
C13_PartitionedEqualsDirect ==
    (/\ agg.method = "mode_multiprocessed"
     /\ agg.kind # ""
     /\ Len(agg.stack) >= 1) =>
        /\ agg.kind = "frame"
        /\ agg.val = mode(agg.stack)

\* what mode_multiprocessed does guarantee: the same frame as the direct mode
\* whenever the partition count does not exceed the number of rows
PartitionedEqualsDirectUpToHeight ==
    (/\ agg.method = "mode_multiprocessed"
     /\ agg.kind # ""
     /\ Len(agg.stack) >= 1
     /\ agg.num_processes <= NPix) =>
        /\ agg.kind = "frame"
        /\ agg.val = mode(agg.stack)

\* C15: every aggregation algorithm (mean, median, mode, partitioned mode) called
\* on a stack of no frame raises an error and returns no frame.
C15_EmptyStackRejected ==
    (agg.kind # "" /\ Len(agg.stack) = 0) => agg.kind = "error"

\* a/b rounded to the nearest integer, a half to the even neighbour (a >= 0, b > 0)
Round(a, b) ==
    LET q == a \div b
        r == a % b
    IN  IF 2 * r < b THEN q
        ELSE IF 2 * r > b THEN q + 1
        ELSE IF q % 2 = 0 THEN q ELSE q + 1

\* C11: for a video of N frames and a sample count n >= 2, the i-th frame index
\* sample_frames_evenly reads (i in 0..n-1) is round(i*(N-1)/(n-1)); the indices
\* are non-decreasing, the first is 0, the last is N-1 and all lie in [0, N-1].
C11_SampleIndicesRounded ==
    (/\ ret.op = "initialize"
     /\ self.cls = "StaticBackground"
     /\ self.num_sample_frames >= 2) =>
        LET N == video.numframes
            n == self.num_sample_frames
        IN  /\ Len(ret.indices) = n
            /\ \A i \in 0..(n - 1) :
                  /\ ret.indices[i + 1] = Round(i * (N - 1), n - 1)
                  /\ ret.indices[i + 1] \in 0..(N - 1)
            /\ \A i \in 1..(n - 1) : ret.indices[i] <= ret.indices[i + 1]
            /\ ret.indices[1] = 0
            /\ ret.indices[n] = N - 1

\* what sample_frames_evenly does guarantee: the i-th index is i*(N-1)/(n-1)
\* brought down to an integer, with the same ends, order and range
SampleIndicesTruncated ==
    (/\ ret.op = "initialize"
     /\ self.cls = "StaticBackground"
     /\ self.num_sample_frames >= 2) =>
        LET N == video.numframes
            n == self.num_sample_frames
        IN  /\ Len(ret.indices) = n
            /\ \A i \in 0..(n - 1) :
                  /\ ret.indices[i + 1] * (n - 1) <= i * (N - 1)
                  /\ i * (N - 1) < (ret.indices[i + 1] + 1) * (n - 1)
                  /\ ret.indices[i + 1] \in 0..(N - 1)
            /\ \A i \in 1..(n - 1) : ret.indices[i] <= ret.indices[i + 1]
            /\ ret.indices[1] = 0
            /\ ret.indices[n] = N - 1

\* C22: for a chunked static model on a video of N frames with K chunks, every
\* frame index sampled for chunk c (0 <= c < K) satisfies
\* floor(c*N/K) <= index < floor((c+1)*N/K) and lies in [0, N-1]; the indices of
\* one chunk are non-decreasing and no index of one chunk lies in the range of
\* another.
C22_ChunkIndicesInsideChunk ==
    (ret.op = "initialize" /\ self.cls = "StaticBackgroundChunked") =>
        LET N == video.numframes
            K == self.num_chunks
            n == self.num_sample_frames
            lo(c) == (c * N) \div K
            hi(c) == ((c + 1) * N) \div K
        IN  /\ Len(ret.indices) = K
            /\ \A c \in 0..(K - 1) :
                  /\ Len(ret.indices[c + 1]) = n
                  /\ \A i \in 1..n :
                        /\ lo(c) <= ret.indices[c + 1][i]
                        /\ ret.indices[c + 1][i] < hi(c)
                        /\ ret.indices[c + 1][i] \in 0..(N - 1)
                        /\ \A d \in 0..(K - 1) \ {c} :
                              ~(lo(d) <= ret.indices[c + 1][i]
                                  /\ ret.indices[c + 1][i] < hi(d))
                  /\ \A i \in 1..(n - 1) :
                        ret.indices[c + 1][i] <= ret.indices[c + 1][i + 1]

\* what the sampling does guarantee, in exact arithmetic: the same, for a video
\* of at least as many frames as there are chunks
ChunkIndicesInsideNonEmptyChunk ==
    video.numframes >= self.num_chunks => C22_ChunkIndicesInsideChunk

\* C4: once stop() has returned, no worker of the engine is still running (stop()
\* sets the stop signal and waits for the worker to end).
C4_NoWorkerAfterStop ==
    [][(prod.pc = "join" /\ prod'.pc = "idle") =>
            \A w \in 1..MaxStarts : ~Alive(w)']_vars

\* C5: after initialize(), as long as no worker recompute has completed,
\* get_background_image() returns the bootstrap frame, the first frame given to
\* subtract_background (stated of the states in which there is one: the first
\* call has seeded the published background, counter >= 1).
C5_BootstrapUntilRecompute ==
    (self.initialized /\ self.counter >= 1 /\ ~ghost.recomputed) =>
        DynamicBackgroundMP_background_image = ghost.bootstrap

\* what the engine does guarantee: the bootstrap frame is returned until a worker
\* begins to overwrite the published background, and the zeroed frame while no
\* subtract_background call was made
BootstrapUntilPublish ==
    (self.initialized /\ ~ghost.publish_started) =>
        /\ self.counter >= 1 => DynamicBackgroundMP_background_image = ghost.bootstrap
        /\ ghost.bootstrap = None => DynamicBackgroundMP_background_image = ZeroFrame

\* C16: while the stop signal is clear a running worker keeps running: whatever
\* the producer does and whatever the ring buffer holds (nothing, too), a worker
\* ends only on a step taken with the stop signal set.
C16_WorkerRunsUntilStop ==
    [][\A w \in 1..MaxStarts :
          (Alive(w) /\ ~Alive(w)') => shared.stop_flag]_vars

\* the frames the published background has held as a whole: the zeroed array of
\* the construction, the bootstrap frame and the aggregates the workers published
Generations ==
    {ZeroFrame} \cup (IF ghost.bootstrap = None THEN {} ELSE {ghost.bootstrap})
                \cup ghost.aggregates

\* C17: every read of the published background observes one complete generation
\* of it: get_background_image() returns one, and subtract_background returns the
\* foreground of its frame against one.
C17_NoTornRead ==
    /\ (ret.op = "get_background_image" /\ ret.kind = "frame") =>
            ret.val \in Generations
    /\ (ret.op = "subtract_background" /\ ret.kind = "frame") =>
            \E g \in Generations :
                ret.val = foreground(ret.image, g, self.polarity)

\* C18: the ring buffer (slots, count, write index) is written by the producer
\* path only and the published background by the workers only: no step of the
\* producer changes the background and no step of a worker changes the buffer.
C18_SingleWriterPerField ==
    [][/\ shared'.background # shared.background => prod' = prod
       /\ shared'.image_store # shared.image_store => workers' = workers]_vars

\* what the engine does guarantee of the ring buffer: only the producer writes it
RingBufferWrittenByProducerOnly ==
    [][shared'.image_store # shared.image_store =>
            (workers' = workers /\ prod' # prod)]_vars

\* the steps the producer takes inside a subtract_background call, and the steps
\* of worker w
InCall ==
    prod.pc \in {"copyto", "numel", "numel_value", "insert_ind", "seed",
                 "get_background"}

ProducerStep ==
    \/ DynamicBackgroundMP_append_copyto
    \/ DynamicBackgroundMP_append_numel_acquire
    \/ DynamicBackgroundMP_append_numel
    \/ DynamicBackgroundMP_append_insert_ind
    \/ DynamicBackgroundMP_seed_background
    \/ DynamicBackgroundMP_subtract_return

WorkerStep(w) ==
    \/ compute_background_while(w)
    \/ compute_background_get_data_acquire(w)
    \/ compute_background_get_data(w)
    \/ compute_background_aggregate(w)
    \/ compute_background_publish(w)

\* C20: subtract_background never waits on a worker and no worker waits on the
\* producer: in every state a call can be made, a call under way can take its
\* next step and a running worker can take its next step, whatever the others
\* are doing (worker not launched, not yet scheduled, in the middle of a
\* recompute, ended), unless it is a worker kept waiting by another worker; and
\* the call returns a frame.
C20_NeverWaits ==
    /\ (prod.pc = "idle" /\ self.counter < MaxMPCalls) =>
            \A image \in Frames : ENABLED DynamicBackgroundMP_subtract_background(image)
    /\ InCall => ENABLED ProducerStep
    /\ \A w \in 1..MaxStarts :
          Alive(w) => (ENABLED WorkerStep(w) \/ shared.numel_lock = "worker")
    /\ ret.op = "subtract_background" => ret.kind = "frame"

\* what the engine does guarantee: the only wait of a call or of a worker is for
\* the lock of the ring buffer's count, while the other side is inside its own
\* access to the count
WaitsOnlyForCountLock ==
    /\ (prod.pc = "idle" /\ self.counter < MaxMPCalls) =>
            \A image \in Frames : ENABLED DynamicBackgroundMP_subtract_background(image)
    /\ (InCall /\ ~ENABLED ProducerStep) =>
            (prod.pc = "numel" /\ shared.numel_lock = "worker")
    /\ \A w \in 1..MaxStarts :
          (Alive(w) /\ ~ENABLED WorkerStep(w)) =>
              (workers[w].pc = "get_data" /\ shared.numel_lock # "free")
    /\ ret.op = "subtract_background" => ret.kind = "frame"

\* ------------------------- specification of the offloaded engine's producer
\* the calls of the caller alone, no worker taking a step
NextProducer ==
    \/ DynamicBackgroundMP_initialize
    \/ \E image \in Frames : subtract_background_entry(image, MaxProducerCalls)
    \/ DynamicBackgroundMP_append_copyto
    \/ DynamicBackgroundMP_append_numel_acquire
    \/ DynamicBackgroundMP_append_numel
    \/ DynamicBackgroundMP_append_insert_ind
    \/ DynamicBackgroundMP_seed_background
    \/ DynamicBackgroundMP_subtract_return
    \/ DynamicBackgroundMP_get_background_image

SpecProducer == InitMP /\ [][NextProducer]_vars

\* the smallest integer >= a/b (a >= 0, b > 0)
Ceil(a, b) == (a + b - 1) \div b

\* C21: with sampling period m, the k-th subtract_background call (k = counter at
\* its entry, from 0) appends its frame to the ring buffer exactly when
\* k mod m = 0 and no other step changes the buffer; the counter increases by
\* exactly 1 in every call; the producer writes the published background in the
\* call with k = 0 and in no other; after k calls the count of the ring buffer is
\* min(ceil(k/m), C).
C21_SamplingPeriod ==
    [][LET m == self.every_n_image
           C == self.num_images
       IN  /\ (prod.pc = "idle" /\ prod'.pc \notin {"idle", "join"}) =>
                 /\ prod'.pc \in {"copyto", "get_background"}
                 /\ (prod'.pc = "copyto") <=> (self.counter % m = 0)
           /\ shared'.image_store # shared.image_store =>
                 /\ self.counter % m = 0
                 /\ prod.pc \in {"copyto", "numel_value", "insert_ind"}
           /\ self'.counter =
                 self.counter + (IF prod'.pc = "get_background" /\ prod.pc # "get_background"
                                 THEN 1 ELSE 0)
           /\ (prod.pc \notin {"idle", "join"} /\ prod'.pc = "idle") =>
                 /\ prod.pc = "get_background"
                 /\ ret'.op = "subtract_background"
                 /\ (self'.counter - 1) % m = 0 =>
                       shared'.image_store.data[
                           ((shared'.image_store.insert_ind + C - 1) % C) + 1] = ret'.image
           /\ prod' # prod =>
                 ((prod'.pc = "seed") <=>
                     \/ prod.pc = "seed" /\ prod.px < NPix
                     \/ prod.pc = "insert_ind" /\ self.counter = 0)
           /\ prod.pc = "seed" => self.counter = 0
           /\ (shared'.background # shared.background /\ workers' = workers) =>
                 prod.pc = "seed"
           /\ prod'.pc = "idle" =>
                 shared'.image_store.numel =
                    (IF Ceil(self'.counter, m) <= C THEN Ceil(self'.counter, m) ELSE C)]_vars

C21_Witness ==
    /\ self.every_n_image = 2
    /\ self.num_images = 1
    /\ self.counter = 3
    /\ prod.pc = "idle"
    /\ ret.op = "subtract_background"
    /\ shared.image_store.numel = 1
    /\ shared.image_store.data[1] = ret.image
    /\ shared.background = ghost.bootstrap
    /\ ghost.bootstrap # ret.image

\* a worker that is not past the test of its loop
AtLoopTest(w) == workers[w].pc \in {"none", "while", "exited", "crashed"}

\* C25: no operation of the offloaded engine clears the stop signal; once it is
\* set, a worker that is launched, or that comes back to the test of its loop,
\* exits without reading the store or writing the published background, and
\* once every worker is at or past that test the background changes only by
\* the producer's own bootstrap write.
C25_StopSignalNeverCleared ==
    [][/\ shared.stop_flag => shared'.stop_flag
       /\ shared.stop_flag =>
             \A w \in 1..MaxStarts :
                /\ workers[w].pc \in {"none", "while"} =>
                      workers'[w].pc \in {"none", "while", "exited"}
                /\ workers[w].pc = "exited" => workers'[w].pc = "exited"
                /\ AtLoopTest(w) => AtLoopTest(w)'
       /\ (shared.stop_flag /\ \A w \in 1..MaxStarts : AtLoopTest(w)) =>
             (shared'.background # shared.background => prod.pc = "seed")]_vars

\* initialize(), stop(), then initialize() again: the second worker was launched
\* with the signal set and has exited; the background is as the first left it
C25_Witness ==
    /\ shared.stop_flag
    /\ prod.pc = "idle"
    /\ ret.op = "initialize"
    /\ self.proc_compute = 2
    /\ workers[1].pc = "exited"
    /\ workers[2].pc = "exited"
    /\ ghost.recomputed
    /\ shared.background \in ghost.aggregates

\* C26: stop() on an offloaded engine on which initialize() was never called
\* fails with an error and leaves the engine as it was: the stop signal still
\* clear and is_initialized() still false, so that a worker launched by a later
\* initialize() stays in its polling loop.
C26_FailedStopChangesNothing ==
    [][(self.cls = "DynamicBackgroundMP" /\ self.proc_compute = 0
          /\ ret' # ret /\ ret'.op = "stop") =>
            /\ ret'.kind = "error"
            /\ self' = self
            /\ ~self'.initialized
            /\ shared' = shared
            /\ ~shared'.stop_flag]_vars

\* what stop() does guarantee before the first initialize(): it fails, and the
\* object's own attributes are as they were
FailedStopKeepsAttributes ==
    [][(self.cls = "DynamicBackgroundMP" /\ self.proc_compute = 0
          /\ ret' # ret /\ ret'.op = "stop") =>
            /\ ret'.kind = "error"
            /\ self' = self
            /\ ~self'.initialized
            /\ shared'.stop_flag]_vars

\* C24: every ring-buffer slot the worker feeds to the aggregation holds one
\* whole frame that the producer appended: pixel after pixel, what the worker
\* has read of a slot of its view agrees with one frame handed to append.
C24_WorkerReadsWholeFrames ==
    \A w \in 1..MaxStarts :
        workers[w].pc \in {"aggregate", "publish"} =>
            \A i \in 1..workers[w].n :
                \E frame \in ghost.frames :
                    \A px \in Pixels :
                        (workers[w].pc = "publish" \/ px < workers[w].px) =>
                            workers[w].data[i][px] = frame[px]

\* what the store does guarantee: a slot the producer is not writing to holds a
\* whole appended frame once the count covers it
CountedSlotsHoldWholeFrames ==
    \A i \in 1..shared.image_store.numel :
        (prod.pc = "copyto" /\ i = shared.image_store.insert_ind + 1)
            \/ shared.image_store.data[i] \in ghost.frames

\* C7: at every instant at most one worker process of the engine exists (a second
\* initialize() without a stop() in between is refused and launches none).
\* the frames of the calls whose counter was a multiple of m, in arrival order
SampledImages(images, m) ==
    [j \in 1..Ceil(Len(images), m) |-> images[(j - 1) * m + 1]]

\* the last Min(n, Len(seq)) elements of seq
LastN(seq, n) == SubSeq(seq, Len(seq) - Min(n, Len(seq)) + 1, Len(seq))

C7_AtMostOneWorker ==
    Cardinality({w \in 1..MaxStarts : Alive(w)}) <= 1

\* ------------------------------------------------- queue specification
QueueInit ==
    /\ \E c \in 1..MaxLen : queue = BoundedQueue(c)
    /\ appended = << >>
    /\ self = NewObject("")
    /\ video = NoVideo
    /\ ret = NoRet
    /\ shared = NewShared(1)
    /\ workers = [w \in 1..MaxStarts |-> NoWorker]
    /\ prod = Idle
    /\ ghost = NoGhost
    /\ agg = NoAgg

QueueAppend(item) ==
    /\ Len(appended) < MaxAppends
    /\ queue' = append(queue, item)
    /\ appended' = Append(appended, item)
    /\ UNCHANGED <<modelVars, mpVars, agg>>

QueueNext == \E item \in Frames : QueueAppend(item)

SpecQueue == QueueInit /\ [][QueueNext]_vars

\* C2: after n <= C appends to an empty BoundedQueue, get_data() returns exactly
\* the n appended frames in the order of their appends (for n = 0 it returns
\* None, which holds no frame).
C2_InsertionOrder ==
    LET n == Len(appended) IN
    n <= queue.maxlen =>
        IF n = 0
        THEN get_data(queue).kind = "None"
        ELSE /\ get_data(queue).kind = "array"
             /\ get_data(queue).rows = appended

C2_Witness ==
    /\ queue.maxlen = 3
    /\ Len(appended) = 3
    /\ appended[1] # appended[2]
    /\ appended[2] # appended[3]
    /\ get_data(queue).rows = appended

\* the append (1-based position in appended) that slot s holds once n > C frames
\* were appended: the one of the last C appends that fell on slot s
MostRecentFor(s) ==
    LET n == Len(appended)
        c == queue.maxlen
    IN  CHOOSE k \in (n - c + 1)..n : (k - 1) % c = s - 1

\* C3: after n > C appends to an empty BoundedQueue, get_data() returns exactly C
\* frames, and they are the C most recently appended ones: every slot holds the
\* latest frame appended to it and the slots together hold appends n-C+1..n, so
\* each append on a full buffer replaced the oldest frame held and no other.
C3_FifoEviction ==
    LET n == Len(appended)
        c == queue.maxlen
    IN  n > c =>
          /\ get_data(queue).kind = "array"
          /\ Len(get_data(queue).rows) = c
          /\ \A s \in 1..c : get_data(queue).rows[s] = appended[MostRecentFor(s)]

C3_Witness ==
    /\ queue.maxlen = 2
    /\ Len(appended) = 5
    /\ appended[3] # appended[5]
    /\ appended[3] # appended[4]
    /\ get_data(queue).rows = <<appended[5], appended[4]>>

\* C19: after any sequence of appends to a BoundedQueue of capacity C,
\* 0 <= numel <= C and 0 <= insert_ind < C, numel = min(number of appends, C) and
\* insert_ind = (number of appends) mod C: each append advances insert_ind by one
\* modulo C and numel by one until it stays at C.
C19_CountAndWriteIndex ==
    LET n == Len(appended)
        C == queue.maxlen
    IN  /\ queue.numel \in 0..C
        /\ queue.insert_ind \in 0..(C - 1)
        /\ queue.numel = (IF n <= C THEN n ELSE C)
        /\ queue.insert_ind = n % C

C19_Witness ==
    /\ queue.maxlen = 3
    /\ Len(appended) = 5
    /\ queue.numel = 3
    /\ queue.insert_ind = 2
====
